---- MODULE Spec2Model ----
(***************************************************************************)
(* Model of backend/ocr/index.py: the OCR gateway handler.  One invocation *)
(* of handler(event, context) is followed from its entry to its return or  *)
(* to the exception it lets escape; the only point where it waits is the   *)
(* outbound requests.post to the OCR provider.                             *)
(*                                                                         *)
(* Python values are modelled as follows.  A str whose characters matter   *)
(* (image, ParsedText) is a sequence of one-character strings; a JSON      *)
(* value is a tagged record; a dict is a sequence of <<key, value>> pairs  *)
(* in insertion order; the raw request body and the response body are      *)
(* TLA+ strings holding the JSON text itself.                              *)
(***************************************************************************)
EXTENDS Integers, Sequences, FiniteSets, TLC

VARIABLES event, environ, request_id, pc, outbound, reply, result, response, raised

vars == <<event, environ, request_id, pc, outbound, reply, result, response, raised>>

(***************************************************************************)
(* Bounds of the model.                                                    *)
(***************************************************************************)
\* longest ParsedText of the first parsed result, in characters
MaxTextLen == 3
\* longest ParsedResults list of a provider reply
MaxResults == 2

(***************************************************************************)
(* JSON values.                                                            *)
(***************************************************************************)
JNull == [t |-> "null"]

JBool(b) == [t |-> "bool", b |-> b]

JNum(n) == [t |-> "num", n |-> n]

JStr(s) == [t |-> "str", s |-> s]

\* a str whose characters the program never inspects (messages, keys,
\* identifiers, base64 data), held as one TLA+ string
JLit(str) == [t |-> "lit", str |-> str]

JArr(a) == [t |-> "arr", a |-> a]

JObj(o) == [t |-> "obj", o |-> o]

\* Python truth value of a decoded JSON value (`not x`, `if x`)
Truthy(v) ==
    CASE v.t = "null" -> FALSE
      [] v.t = "bool" -> v.b
      [] v.t = "num" -> v.n # 0
      [] v.t = "str" -> v.s # <<>>
      [] v.t = "lit" -> v.str # ""
      [] v.t = "arr" -> v.a # <<>>
      [] v.t = "obj" -> v.o # <<>>

\* `key in d` for a dict held as a sequence of pairs
HasKey(o, k) == \E i \in 1..Len(o) : o[i][1] = k

\* d.get(k, default) for a dict held as a sequence of pairs
DictGet(o, k, default) ==
    IF HasKey(o, k)
    THEN o[CHOOSE i \in 1..Len(o) : o[i][1] = k][2]
    ELSE default

\* d.get(k, default) for a dict held as a function with a finite domain
Get(d, k, default) == IF k \in DOMAIN d THEN d[k] ELSE default

(***************************************************************************)
(* json.dumps with its default separators and ensure_ascii.                *)
(***************************************************************************)
EscapeChar(c) ==
    CASE c = "\n" -> "\\n"
      [] c = "\t" -> "\\t"
      [] c = "\r" -> "\\r"
      [] c = "\f" -> "\\f"
      [] c = "\"" -> "\\\""
      [] c = "\\" -> "\\\\"
      [] OTHER -> c

RECURSIVE EscapeChars(_)
EscapeChars(s) ==
    IF s = <<>> THEN "" ELSE EscapeChar(Head(s)) \o EscapeChars(Tail(s))

\* the characters of a key or of a fixed message, written as a TLA+ string,
\* need no escaping in this program
Quote(str) == "\"" \o str \o "\""

RECURSIVE JsonDumps(_), DumpItems(_), DumpPairs(_)
JsonDumps(v) ==
    CASE v.t = "null" -> "null"
      [] v.t = "bool" -> (IF v.b THEN "true" ELSE "false")
      [] v.t = "num" -> ToString(v.n)
      [] v.t = "str" -> "\"" \o EscapeChars(v.s) \o "\""
      [] v.t = "lit" -> Quote(v.str)
      [] v.t = "arr" -> "[" \o DumpItems(v.a) \o "]"
      [] v.t = "obj" -> "{" \o DumpPairs(v.o) \o "}"

DumpItems(a) ==
    IF a = <<>> THEN ""
    ELSE IF Len(a) = 1 THEN JsonDumps(a[1])
    ELSE JsonDumps(a[1]) \o ", " \o DumpItems(Tail(a))

DumpPairs(o) ==
    IF o = <<>> THEN ""
    ELSE IF Len(o) = 1 THEN Quote(o[1][1]) \o ": " \o JsonDumps(o[1][2])
    ELSE Quote(o[1][1]) \o ": " \o JsonDumps(o[1][2]) \o ", " \o DumpPairs(Tail(o))

\* json.loads that yields an empty object for a text it cannot decode
json_loads_Lenient(raw, universe) ==
    IF \E v \in universe : JsonDumps(v) = raw
    THEN [ok |-> TRUE, value |-> CHOOSE v \in universe : JsonDumps(v) = raw]
    ELSE [ok |-> TRUE, value |-> JObj(<<>>)]

\* json.loads over the documents of `universe`: the value whose JSON text
\* is `raw`, or a decode error when `raw` is the text of no JSON value
json_loads(raw, universe) ==
    IF \E v \in universe : JsonDumps(v) = raw
    THEN [ok |-> TRUE, value |-> CHOOSE v \in universe : JsonDumps(v) = raw]
    ELSE [ok |-> FALSE]

(***************************************************************************)
(* str.strip()                                                             *)
(***************************************************************************)
\* the whitespace characters of the model's alphabets that str.strip() removes
IsSpace(c) == c \in {" ", "\t", "\n", "\r", "\f"}

RECURSIVE LStrip(_)
LStrip(s) == IF s # <<>> /\ IsSpace(Head(s)) THEN LStrip(Tail(s)) ELSE s

RECURSIVE RStrip(_)
RStrip(s) ==
    IF s # <<>> /\ IsSpace(s[Len(s)]) THEN RStrip(SubSeq(s, 1, Len(s) - 1)) ELSE s

Strip(s) == RStrip(LStrip(s))

(***************************************************************************)
(* Inputs of one invocation.                                               *)
(***************************************************************************)
Methods == {"OPTIONS", "POST", "GET", "DELETE"}

Image1 == JLit("aGVsbG8=")

Image2 == JLit("d29ybGQ=")

\* the JSON documents a request body is drawn from
BodyValues ==
    { JNull,
      JArr(<<>>),
      Image1,
      JObj(<<>>),
      JObj(<< <<"name", JLit("scan.png")>> >>),
      JObj(<< <<"image", JLit("")>> >>),
      JObj(<< <<"image", JNull>> >>),
      JObj(<< <<"image", JNum(0)>> >>),
      JObj(<< <<"image", Image1>> >>),
      JObj(<< <<"name", JLit("scan.png")>>, <<"image", Image2>> >>) }

\* strings that are the text of no JSON value
MalformedBodies == {"", "not json", "{\"image\": "}

Bodies == {JsonDumps(v) : v \in BodyValues} \cup MalformedBodies

Events ==
    {[httpMethod |-> m, body |-> b] : m \in Methods, b \in Bodies}
    \cup {[httpMethod |-> m] : m \in Methods}
    \cup {[body |-> b] : b \in Bodies}
    \cup {<<>>}

ApiKeys == {"", "K-111", "K-222"}

Environs ==
    {[PATH |-> "/usr/bin"]}
    \cup {[PATH |-> "/usr/bin", OCR_SPACE_API_KEY |-> k] : k \in ApiKeys}

RequestIds == {"req-1", "req-2"}

(***************************************************************************)
(* Replies of the provider.                                                *)
(***************************************************************************)
Alphabet == {" ", "\n", "a"}

Texts == UNION {[1..n -> Alphabet] : n \in 0..MaxTextLen}

\* the first parsed result: with any text of Texts, without the key, with a
\* ParsedText that is not a string, or not an object at all
FirstEntries ==
    {JObj(<<>>)}
    \cup {JObj(<< <<"ParsedText", JStr(txt)>> >>) : txt \in Texts}
    \cup {JObj(<< <<"ParsedText", JNull>> >>),
          JObj(<< <<"ParsedText", JNum(7)>> >>),
          JLit("page 1")}

\* the parsed results that follow the first one
TailEntries == {JObj(<<>>), JObj(<< <<"ParsedText", JStr(<<"b">>)>> >>)}

ParsedResultsLists ==
    {<<>>} \cup
    {<<f>> \o r : f \in FirstEntries,
                  r \in UNION {[1..n -> TailEntries] : n \in 0..(MaxResults - 1)}}

ErroredFields ==
    { <<>>,
      << <<"IsErroredOnProcessing", JBool(TRUE)>> >>,
      << <<"IsErroredOnProcessing", JBool(FALSE)>> >> }

ErrorMessageFields ==
    { <<>>,
      << <<"ErrorMessage", JArr(<<JLit("bad image")>>)>> >>,
      << <<"ErrorMessage", JLit("Timed out")>> >>,
      << <<"ErrorMessage", JNull>> >> }

\* ParsedResults absent, null, something that is not a list, or a list
ParsedResultsFields ==
    {<<>>,
     << <<"ParsedResults", JNull>> >>,
     << <<"ParsedResults", JLit("none")>> >>,
     << <<"ParsedResults", JNum(1)>> >>,
     << <<"ParsedResults", JObj(<< <<"ParsedText", JStr(<<"a">>)>> >>)>> >>}
    \cup {<< <<"ParsedResults", JArr(l)>> >> : l \in ParsedResultsLists}

\* the replies that are JSON objects
ProviderObjects ==
    {JObj(e \o m \o p) : e \in ErroredFields, m \in ErrorMessageFields,
                         p \in ParsedResultsFields}

\* a reply that is JSON but not an object
ProviderNonObjects == {JLit("The API key is invalid")}

ProviderResults == ProviderObjects \cup ProviderNonObjects

(***************************************************************************)
(* handler(event, context)                                                 *)
(***************************************************************************)
\* a missing httpMethod read as POST
method_DefaultPost(ev) == Get(ev, "httpMethod", "POST")

method(ev) == Get(ev, "httpMethod", "GET")

\* the preflight answered with 204 No Content
OptionsResponse_NoContent ==
    [statusCode |-> 204,
     headers |-> ("Access-Control-Allow-Origin" :> "*")
                 @@ ("Access-Control-Allow-Methods" :> "POST, OPTIONS")
                 @@ ("Access-Control-Allow-Headers" :> "Content-Type")
                 @@ ("Access-Control-Max-Age" :> "86400"),
     body |-> ""]

OptionsResponse ==
    [statusCode |-> 200,
     headers |-> ("Access-Control-Allow-Origin" :> "*")
                 @@ ("Access-Control-Allow-Methods" :> "POST, OPTIONS")
                 @@ ("Access-Control-Allow-Headers" :> "Content-Type")
                 @@ ("Access-Control-Max-Age" :> "86400"),
     body |-> ""]

\* the JSON responses without the CORS header
JsonHeaders_NoCors == ("Content-Type" :> "application/json")

JsonHeaders ==
    ("Content-Type" :> "application/json") @@ ("Access-Control-Allow-Origin" :> "*")

MethodNotAllowedResponse ==
    [statusCode |-> 405,
     headers |-> JsonHeaders,
     isBase64Encoded |-> FALSE,
     body |-> JsonDumps(JObj(<< <<"error", JLit("Method not allowed")>> >>))]

body_data(ev) == json_loads(Get(ev, "body", "{}"), BodyValues)

image_base64(data) == DictGet(data.o, "image", JLit(""))

ImageRequiredResponse ==
    [statusCode |-> 400,
     headers |-> JsonHeaders,
     isBase64Encoded |-> FALSE,
     body |-> JsonDumps(JObj(<< <<"error", JLit("Image is required")>> >>))]

\* `api_key is None` in the place of `not api_key`
NotApiKey_NoneOnly(env) == "OCR_SPACE_API_KEY" \notin DOMAIN env

\* `not api_key` for api_key = os.environ.get('OCR_SPACE_API_KEY')
NotApiKey(env) ==
    \/ "OCR_SPACE_API_KEY" \notin DOMAIN env
    \/ env["OCR_SPACE_API_KEY"] = ""

KeyNotConfiguredResponse ==
    [statusCode |-> 500,
     headers |-> JsonHeaders,
     isBase64Encoded |-> FALSE,
     body |-> JsonDumps(JObj(<< <<"error", JLit("OCR API key not configured")>> >>))]

\* the payload with another language hint
payload_English(image) ==
    [base64Image |-> image,
     language |-> "eng",
     isOverlayRequired |-> FALSE,
     detectOrientation |-> TRUE,
     scale |-> TRUE,
     OCREngine |-> 2]

payload(image) ==
    [base64Image |-> image,
     language |-> "rus",
     isOverlayRequired |-> FALSE,
     detectOrientation |-> TRUE,
     scale |-> TRUE,
     OCREngine |-> 2]

ProviderRequest(image, key) ==
    [url |-> "https://api.ocr.space/parse/image",
     data |-> payload(image),
     headers |-> [apikey |-> key]]

Return(r) == [kind |-> "return", response |-> r]

Raise(e) == [kind |-> "raise", exc |-> e]

Post(q) == [kind |-> "post", request |-> q]

\* the handler from its entry up to the outbound call: what it returns,
\* what it raises, or the request it posts
HandlerToPost(ev, env) ==
    IF method(ev) = "OPTIONS" THEN Return(OptionsResponse)
    ELSE IF method(ev) # "POST" THEN Return(MethodNotAllowedResponse)
    ELSE LET parsed == body_data(ev) IN
         IF ~parsed.ok THEN Raise("JSONDecodeError")
         ELSE IF parsed.value.t # "obj" THEN Raise("AttributeError")
         ELSE LET image == image_base64(parsed.value) IN
              IF ~Truthy(image) THEN Return(ImageRequiredResponse)
              ELSE IF NotApiKey(env) THEN Return(KeyNotConfiguredResponse)
              ELSE Post(ProviderRequest(image, env["OCR_SPACE_API_KEY"]))

\* result.get('ErrorMessage') without the default
details_NoDefault(res) == DictGet(res.o, "ErrorMessage", JNull)

details(res) == DictGet(res.o, "ErrorMessage", JArr(<<>>))

ProcessingFailedResponse(res) ==
    [statusCode |-> 500,
     headers |-> JsonHeaders,
     isBase64Encoded |-> FALSE,
     body |-> JsonDumps(JObj(<< <<"error", JLit("OCR processing failed")>>,
                                <<"details", details(res)>> >>))]

parsed_results(res) == DictGet(res.o, "ParsedResults", JArr(<<>>))

\* an intermediate value of the handler, as opposed to a raise
Value(v) == [kind |-> "value", value |-> v]

\* parsed_results[0].get('ParsedText', '') if parsed_results else '',
\* line 97 as a whole.  On a truthy parsed_results: the first element of a
\* list is asked for its ParsedText, and only a dict has .get; indexing a
\* str gives a one-character str, which has no .get either; indexing a dict
\* with 0 is a KeyError (its keys are strings); a number or a boolean
\* cannot be indexed
text(res) ==
    LET pr == parsed_results(res) IN
    IF ~Truthy(pr) THEN Value(JStr(<<>>))
    ELSE CASE pr.t = "arr" ->
                (IF pr.a[1].t = "obj"
                 THEN Value(DictGet(pr.a[1].o, "ParsedText", JStr(<<>>)))
                 ELSE Raise("AttributeError"))
           [] pr.t \in {"lit", "str"} -> Raise("AttributeError")
           [] pr.t = "obj" -> Raise("KeyError")
           [] OTHER -> Raise("TypeError")

\* text.strip(): only a str has .strip; a ParsedText that is a string is
\* always held as JStr
stripped(txt) ==
    IF txt.t = "str" THEN Value(JStr(Strip(txt.s))) ELSE Raise("AttributeError")

SuccessResponse(txt, rid) ==
    [statusCode |-> 200,
     headers |-> JsonHeaders,
     isBase64Encoded |-> FALSE,
     body |-> JsonDumps(JObj(<< <<"text", txt>>, <<"requestId", JLit(rid)>> >>))]

\* the handler from the decoded reply of the provider to its end
HandlerAfterPost(res, rid) ==
    IF res.t # "obj" THEN Raise("AttributeError")
    ELSE IF Truthy(DictGet(res.o, "IsErroredOnProcessing", JNull))
    THEN Return(ProcessingFailedResponse(res))
    ELSE LET txt == text(res) IN
         IF txt.kind = "raise" THEN txt
         ELSE LET out == stripped(txt.value) IN
              IF out.kind = "raise" THEN out
              ELSE Return(SuccessResponse(out.value, rid))

(***************************************************************************)
(* The invocation as a state machine.                                      *)
(***************************************************************************)
NoResponse == [none |-> TRUE]

NoResult == [t |-> "none"]

Init ==
    /\ event \in Events
    /\ environ \in Environs
    /\ request_id \in RequestIds
    /\ pc = "start"
    /\ outbound = <<>>
    /\ reply = "none"
    /\ result = NoResult
    /\ response = NoResponse
    /\ raised = ""

\* apply the outcome of a stretch of the handler: a return or a raise
Finish(o) ==
    /\ o.kind \in {"return", "raise"}
    /\ pc' = (IF o.kind = "return" THEN "returned" ELSE "raised")
    /\ response' = (IF o.kind = "return" THEN o.response ELSE NoResponse)
    /\ raised' = (IF o.kind = "raise" THEN o.exc ELSE "")

\* the runtime calls handler(event, context); it runs to its return, to an
\* uncaught exception, or into requests.post
Invoke ==
    /\ pc = "start"
    /\ LET o == HandlerToPost(event, environ) IN
         IF o.kind = "post"
         THEN /\ pc' = "posting"
              /\ outbound' = Append(outbound, o.request)
              /\ UNCHANGED <<response, raised>>
         ELSE /\ Finish(o)
              /\ UNCHANGED outbound
    /\ UNCHANGED <<event, environ, request_id, reply, result>>

\* requests.post raises (no connection, timeout of the transport)
PostFails ==
    /\ pc = "posting"
    /\ reply' = "network_error"
    /\ Finish(Raise("ConnectionError"))
    /\ UNCHANGED <<event, environ, request_id, outbound, result>>

\* requests.post returns a reply whose body is not JSON: response.json() raises
ReplyNotJson ==
    /\ pc = "posting"
    /\ reply' = "not_json"
    /\ Finish(Raise("JSONDecodeError"))
    /\ UNCHANGED <<event, environ, request_id, outbound, result>>

\* requests.post returns a reply whose body decodes to res
ReplyJson ==
    /\ pc = "posting"
    /\ \E res \in ProviderResults :
         /\ reply' = "json"
         /\ result' = res
         /\ Finish(HandlerAfterPost(res, request_id))
    /\ UNCHANGED <<event, environ, request_id, outbound>>

Next == Invoke \/ PostFails \/ ReplyNotJson \/ ReplyJson

Spec == Init /\ [][Next]_vars

TypeOK ==
    /\ pc \in {"start", "posting", "returned", "raised"}
    /\ reply \in {"none", "network_error", "not_json", "json"}
    /\ Len(outbound) \in 0..1

(***************************************************************************)
(* Vocabulary of the properties, stated on the request and on the reply    *)
(* rather than on the handler's own intermediate values.                   *)
(***************************************************************************)
HasMethod(m) == "httpMethod" \in DOMAIN event /\ event["httpMethod"] = m

\* the request body as the handler reads it: '{}' stands for a missing field
RawBody == IF "body" \in DOMAIN event THEN event["body"] ELSE "{}"

ParsedBody == json_loads(RawBody, BodyValues)

BodyParses == RawBody \notin MalformedBodies

BodyIsObject == BodyParses /\ ParsedBody.value.t = "obj"

\* the parsed body is an object with an image that is not empty
HasImage ==
    /\ BodyIsObject
    /\ HasKey(ParsedBody.value.o, "image")
    /\ Truthy(DictGet(ParsedBody.value.o, "image", JNull))

RequestImage == DictGet(ParsedBody.value.o, "image", JNull)

KeyConfigured ==
    "OCR_SPACE_API_KEY" \in DOMAIN environ /\ environ["OCR_SPACE_API_KEY"] # ""

Finished == pc \in {"returned", "raised"}

Started == pc # "start"

NoOutboundCall == outbound = <<>> /\ reply = "none"

\* the reply is a JSON object whose IsErroredOnProcessing is true
SignalsError ==
    /\ reply = "json"
    /\ result.t = "obj"
    /\ HasKey(result.o, "IsErroredOnProcessing")
    /\ DictGet(result.o, "IsErroredOnProcessing", JNull) = JBool(TRUE)

\* the provider has replied with JSON that does not signal a processing error
SignalsNoError == reply = "json" /\ ~SignalsError

\* the parsed-result sequence of the reply, empty when the reply has none
ReplyResults ==
    IF result.t = "obj"
       /\ HasKey(result.o, "ParsedResults")
       /\ DictGet(result.o, "ParsedResults", JNull).t = "arr"
    THEN DictGet(result.o, "ParsedResults", JNull).a
    ELSE <<>>

\* the first parsed result carries a text that is a string
FirstHasText ==
    /\ ReplyResults # <<>>
    /\ ReplyResults[1].t = "obj"
    /\ HasKey(ReplyResults[1].o, "ParsedText")
    /\ DictGet(ReplyResults[1].o, "ParsedText", JNull).t = "str"

\* the characters of the first parsed result's text, none when it has none
FirstText ==
    IF FirstHasText THEN DictGet(ReplyResults[1].o, "ParsedText", JNull).s ELSE <<>>

\* u is s without its leading and trailing whitespace
IsTrimOf(u, s) ==
    \E i \in 0..Len(s) : \E j \in i..Len(s) :
        /\ u = SubSeq(s, i + 1, j)
        /\ \A k \in 1..i : IsSpace(s[k])
        /\ \A k \in (j + 1)..Len(s) : IsSpace(s[k])
        /\ u # <<>> => ~IsSpace(u[1]) /\ ~IsSpace(u[Len(u)])

\* the JSON documents a response body can hold
ResponseBodyValues ==
    {JObj(<< <<"error", JLit(m)>> >>) :
        m \in {"Method not allowed", "Image is required",
               "OCR API key not configured"}}
    \cup {JObj(<< <<"error", JLit("OCR processing failed")>>, <<"details", d>> >>) :
            d \in {JArr(<<>>)} \cup {f[1][2] : f \in ErrorMessageFields \ {<<>>}}}
    \cup {JObj(<< <<"text", JStr(txt)>>, <<"requestId", JLit(r)>> >>) :
            txt \in Texts, r \in RequestIds}

\* the response body is the text of a JSON object with an `error` key
BodyHasErrorKey ==
    LET doc == json_loads(response.body, ResponseBodyValues) IN
        doc.ok /\ doc.value.t = "obj" /\ HasKey(doc.value.o, "error")

\* the response body is the text of a JSON object without an `error` key
BodyHasNoErrorKey ==
    LET doc == json_loads(response.body, ResponseBodyValues) IN
        doc.ok /\ doc.value.t = "obj" /\ ~HasKey(doc.value.o, "error")

(***************************************************************************)
(* C1.  An OPTIONS request is answered with status 200, an empty body and  *)
(* the four CORS headers, whatever its body and whatever the API-key       *)
(* configuration, and the provider is not called.                          *)
(***************************************************************************)
C1_OptionsPreflight ==
    (HasMethod("OPTIONS") /\ Started) =>
        /\ pc = "returned"
        /\ response.statusCode = 200
        /\ response.body = ""
        /\ DOMAIN response.headers =
             {"Access-Control-Allow-Origin", "Access-Control-Allow-Methods",
              "Access-Control-Allow-Headers", "Access-Control-Max-Age"}
        /\ response.headers["Access-Control-Allow-Origin"] = "*"
        /\ response.headers["Access-Control-Allow-Methods"] = "POST, OPTIONS"
        /\ response.headers["Access-Control-Allow-Headers"] = "Content-Type"
        /\ response.headers["Access-Control-Max-Age"] = "86400"
        /\ NoOutboundCall

\* an OPTIONS request with a malformed body and no API key has been answered
C1_Witness ==
    /\ HasMethod("OPTIONS")
    /\ pc = "returned"
    /\ RawBody = "not json"
    /\ ~KeyConfigured

(***************************************************************************)
(* C2.  A request whose method is neither POST nor OPTIONS, a request      *)
(* without httpMethod included, is answered with status 405 and the body   *)
(* {"error": "Method not allowed"}; the body is not parsed and the         *)
(* provider is not called.                                                 *)
(***************************************************************************)
C2_MethodNotAllowed ==
    (~HasMethod("POST") /\ ~HasMethod("OPTIONS") /\ Started) =>
        /\ pc = "returned"
        /\ response.statusCode = 405
        /\ response.body = "{\"error\": \"Method not allowed\"}"
        /\ NoOutboundCall

\* a request without httpMethod and with a malformed body has been answered
C2_Witness ==
    /\ "httpMethod" \notin DOMAIN event
    /\ RawBody = "not json"
    /\ pc = "returned"

(***************************************************************************)
(* C3.  A POST whose parsed body has no image field or an empty one, a     *)
(* request without body included, is answered with status 400 and the     *)
(* body {"error": "Image is required"}, also when the API key is not       *)
(* configured, and the provider is not called.                             *)
(***************************************************************************)
C3_ImageRequired ==
    (HasMethod("POST") /\ BodyParses /\ ~HasImage /\ Started) =>
        /\ pc = "returned"
        /\ response.statusCode = 400
        /\ response.body = "{\"error\": \"Image is required\"}"
        /\ NoOutboundCall

(***************************************************************************)
(* C4.  A POST with a non-empty image while the API key is missing or      *)
(* empty is answered with status 500 and the body                          *)
(* {"error": "OCR API key not configured"}, and the provider is not        *)
(* called.                                                                 *)
(***************************************************************************)
C4_KeyNotConfigured ==
    (HasMethod("POST") /\ HasImage /\ ~KeyConfigured /\ Started) =>
        /\ pc = "returned"
        /\ response.statusCode = 500
        /\ response.body = "{\"error\": \"OCR API key not configured\"}"
        /\ NoOutboundCall

\* a POST with an image has been answered while the key is set but empty
C4_Witness ==
    /\ HasMethod("POST")
    /\ HasImage
    /\ "OCR_SPACE_API_KEY" \in DOMAIN environ
    /\ ~KeyConfigured
    /\ pc = "returned"

(***************************************************************************)
(* C5.  When the provider's reply signals a processing error, the answer   *)
(* has status 500 and the body {"error": "OCR processing failed",          *)
(* "details": D} with D the reply's ErrorMessage, the empty list when the  *)
(* reply has none; the parsed results of the reply play no part.           *)
(***************************************************************************)
C5_ProcessingFailed ==
    SignalsError =>
        /\ pc = "returned"
        /\ response.statusCode = 500
        /\ response.body =
             "{\"error\": \"OCR processing failed\", \"details\": "
             \o (IF HasKey(result.o, "ErrorMessage")
                 THEN JsonDumps(DictGet(result.o, "ErrorMessage", JNull))
                 ELSE "[]")
             \o "}"

\* an errored reply without ErrorMessage and with a parsed text was answered
C5_Witness ==
    /\ SignalsError
    /\ ~HasKey(result.o, "ErrorMessage")
    /\ FirstText = <<"a">>
    /\ pc = "returned"

(***************************************************************************)
(* C6.  When the provider's reply signals no processing error, the answer  *)
(* has status 200 and the body {"text": T, "requestId": R}: T is the text  *)
(* of the first parsed result without its leading and trailing whitespace, *)
(* the empty string when there is no parsed result, and R is the request   *)
(* identifier of the invocation.                                           *)
(***************************************************************************)
C6_Success ==
    SignalsNoError =>
        /\ pc = "returned"
        /\ response.statusCode = 200
        /\ \E u \in Texts :
             /\ IsTrimOf(u, FirstText)
             /\ response.body =
                  "{\"text\": \"" \o EscapeChars(u)
                  \o "\", \"requestId\": \"" \o request_id \o "\"}"
        /\ ReplyResults = <<>> =>
             response.body = "{\"text\": \"\", \"requestId\": \"" \o request_id \o "\"}"

(***************************************************************************)
(* C7.  Every response has the four fields statusCode (integer), headers   *)
(* (mapping), isBase64Encoded (boolean) and body (string), the response    *)
(* to OPTIONS included.                                                    *)
(***************************************************************************)
C7_Envelope ==
    pc = "returned" =>
        /\ DOMAIN response = {"statusCode", "headers", "isBase64Encoded", "body"}
        /\ response.statusCode \in Int
        /\ response.isBase64Encoded \in BOOLEAN
        /\ response.body \in STRING
        /\ \A h \in DOMAIN response.headers : response.headers[h] \in STRING

(***************************************************************************)
(* C8.  Every response to a request other than OPTIONS carries             *)
(* Content-Type: application/json and Access-Control-Allow-Origin: *;      *)
(* every response with a 4xx/5xx status has a JSON body with an `error`    *)
(* key, and no response with status 200 has one.                           *)
(***************************************************************************)
C8_JsonResponses ==
    pc = "returned" =>
        /\ ~HasMethod("OPTIONS") =>
             /\ {"Content-Type", "Access-Control-Allow-Origin"}
                  \subseteq DOMAIN response.headers
             /\ response.headers["Content-Type"] = "application/json"
             /\ response.headers["Access-Control-Allow-Origin"] = "*"
             /\ response.statusCode \in {200, 400, 405, 500}
        /\ response.statusCode >= 400 => BodyHasErrorKey
        /\ response.statusCode = 200 => response.body = "" \/ BodyHasNoErrorKey

\* the provider reported an error and the 500 response has been returned
C8_Witness ==
    /\ pc = "returned"
    /\ SignalsError
    /\ response.statusCode = 500
    /\ BodyHasErrorKey

(***************************************************************************)
(* C9.  A POST whose body is not valid JSON, the empty string included,    *)
(* gets no response: the invocation ends in an uncaught failure before     *)
(* the provider is called, whatever the API key configuration; a failure   *)
(* of the outbound call or of decoding the provider's reply ends the       *)
(* invocation in an uncaught failure as well.                              *)
(***************************************************************************)
C9_UnhandledFailures ==
    /\ (HasMethod("POST") /\ ~BodyParses /\ Started) =>
          /\ pc = "raised"
          /\ raised # ""
          /\ response = NoResponse
          /\ NoOutboundCall
    /\ reply \in {"network_error", "not_json"} =>
          /\ pc = "raised"
          /\ raised # ""
          /\ response = NoResponse

\* a POST with an empty body has failed while no API key is configured
C9_Witness ==
    /\ HasMethod("POST")
    /\ "body" \in DOMAIN event
    /\ event["body"] = ""
    /\ ~KeyConfigured
    /\ pc = "raised"

(***************************************************************************)
(* C10.  The provider is called at most once in an invocation; it is       *)
(* called exactly when the method is POST, the body parses to an object    *)
(* with a non-empty image and the API key is configured; the call carries  *)
(* the request's image unchanged with the fixed fields and the configured  *)
(* key in the apikey header; and it precedes the response.                 *)
(***************************************************************************)
ShouldCall == HasMethod("POST") /\ HasImage /\ KeyConfigured

C10_CallState ==
    /\ Len(outbound) <= 1
    /\ Started => (Len(outbound) = 1 <=> ShouldCall)
    /\ pc = "posting" => response = NoResponse
    /\ outbound # <<>> =>
         outbound[1] =
           [url |-> "https://api.ocr.space/parse/image",
            data |-> [base64Image |-> RequestImage,
                      language |-> "rus",
                      isOverlayRequired |-> FALSE,
                      detectOrientation |-> TRUE,
                      scale |-> TRUE,
                      OCREngine |-> 2],
            headers |-> [apikey |-> environ["OCR_SPACE_API_KEY"]]]

C10_CallStep ==
    /\ outbound' # outbound => response = NoResponse /\ response' = NoResponse
    /\ (response' # NoResponse /\ outbound' # <<>>) => outbound = outbound'

C10_SingleOutboundCall == [](C10_CallState) /\ [][C10_CallStep]_vars

\* the one call was made, the provider reported an error, and the
\* invocation ended without a second call
C10_Witness ==
    /\ Len(outbound) = 1
    /\ SignalsError
    /\ pc = "returned"

====
